---------------------------- MODULE Spec2Model ----------------------------
(***************************************************************************)
(* Model of the online song library: the song use case                    *)
(* (internal/usecase/song.go), the postgres song repository               *)
(* (internal/adapter/repository/postgres/song.go), the pagination entity  *)
(* (internal/entity/song.go) and the songs table they work on.            *)
(*                                                                         *)
(* Strings are sequences of one-character strings, <<>> being "".         *)
(* time.Time values are naturals, 0 being the zero time.                  *)
(* A Go pointer result is a sequence of length 0 (nil) or 1.              *)
(* An error is the sequence of its wrapping layers, outermost first,      *)
(* ending in its cause; <<>> is the nil error.                            *)
(***************************************************************************)
EXTENDS Integers, Sequences, FiniteSets, TLC

VARIABLES
    songs,    \* the rows of the 'songs' table
    nextID,   \* the next identifier gen_random_uuid() hands out
    now,      \* the store's CURRENT_TIMESTAMP
    calls,    \* what the last use-case invocation called, in order
    ret,      \* the last use-case invocation: its inputs and what it returned
    listing   \* the GetAll between its page query and its count query, if any

vars == <<songs, nextID, now, calls, ret, listing>>

-----------------------------------------------------------------------------
(* Bounds of the model *)

\* uint64 is modelled with UintBits bits: arithmetic is modulo 2^UintBits
UintBits == 6
\* songs ever created in one behaviour
MaxSongs == 2
\* writes (insert, update) in one behaviour; each advances the clock
MaxClock == 3
\* length of the lyric texts enumerated exhaustively
MaxTextLen == 4

Modulus == 2 ^ UintBits
MaxUint == Modulus - 1

-----------------------------------------------------------------------------
(* Strings *)

NL == "\n"

Min(a, b) == IF a < b THEN a ELSE b

\* s[i:] of Go, i counted from 0
Drop(s, i) == SubSeq(s, i + 1, Len(s))
\* s[:i] of Go
Take(s, i) == SubSeq(s, 1, i)

HasPrefix(s, p) == Len(s) >= Len(p) /\ Take(s, Len(p)) = p

RECURSIVE IndexFrom(_, _, _)
\* the first 0-based position >= i at which sep occurs in s, or -1
IndexFrom(s, sep, i) ==
    IF i + Len(sep) > Len(s) THEN -1
    ELSE IF SubSeq(s, i + 1, i + Len(sep)) = sep THEN i
    ELSE IndexFrom(s, sep, i + 1)

\* strings.Index(s, sep)
Index(s, sep) == IndexFrom(s, sep, 0)

RECURSIVE Split(_, _)
\* strings.Split(s, sep) for a non-empty sep: cut at the leftmost occurrence,
\* continue after it
Split(s, sep) ==
    LET m == Index(s, sep)
    IN  IF m < 0 THEN <<s>>
        ELSE <<Take(s, m)>> \o Split(Drop(s, m + Len(sep)), sep)

RECURSIVE Count(_, _)
\* strings.Count(s, sep) for a non-empty sep: the non-overlapping occurrences,
\* counted by scanning from the left
Count(s, sep) ==
    IF Len(s) < Len(sep) THEN 0
    ELSE IF HasPrefix(s, sep) THEN 1 + Count(Drop(s, Len(sep)), sep)
    ELSE Count(Drop(s, 1), sep)

RECURSIVE Join(_, _)
\* strings.Join(elems, sep)
Join(elems, sep) ==
    IF Len(elems) = 0 THEN <<>>
    ELSE IF Len(elems) = 1 THEN elems[1]
    ELSE elems[1] \o sep \o Join(Tail(elems), sep)

\* strings.Contains(s, sub)
Contains(s, sub) == Index(s, sub) >= 0

-----------------------------------------------------------------------------
(* Errors *)

NoErr == <<>>
\* entity.ErrSongNotFound
ErrSongNotFound == "song not found"
\* sql.ErrNoRows
ErrNoRows == "sql: no rows in result set"
\* any other failure of the database (connection lost, context cancelled)
ErrDB == "database failure"
\* any failure of the music info API
ErrAPI == "api error"

\* fmt.Errorf("%s: ...: %w", op, err)
Wrap(op, err) == <<op>> \o err
\* errors.Is(err, target)
Is(err, target) == \E i \in 1..Len(err) : err[i] = target

-----------------------------------------------------------------------------
(* entity.Pagination *)

DefaultOffset == 0
DefaultLimit == 20

\* uint64 addition
U64Add(a, b) == (a + b) % Modulus

Pagination(offset, limit) ==
    [Offset |-> offset, Limit |-> limit, Items |-> 0, Total |-> 0]

\* IsEmpty looking at the offset alone
IsEmptyMutOffsetOnly(p) == p.Offset = 0
\* IsEmpty looking at the limit alone
IsEmptyMutLimitOnly(p) == p.Limit = 0

IsEmpty(p) == p.Offset = 0 /\ p.Limit = 0

SetDefault(p) == [p EXCEPT !.Offset = DefaultOffset, !.Limit = DefaultLimit]

-----------------------------------------------------------------------------
(* entity.Song and the songRow of the repository *)

\* uuid.Nil, the zero value of Song.ID
NilID == 0
\* the zero time.Time
ZeroTime == 0

SongDetail(releaseDate, text, link) ==
    [ReleaseDate |-> releaseDate, Text |-> text, Link |-> link]

\* entity.Song{GroupName: g, Name: n, SongDetail: d}
Song(g, n, d) ==
    [ID |-> NilID, GroupName |-> g, Name |-> n, SongDetail |-> d,
     CreatedAt |-> ZeroTime, UpdatedAt |-> ZeroTime]

\* time.Time.IsZero
IsZero(t) == t = ZeroTime

NullTime(t, valid) == [Time |-> t, Valid |-> valid]
NullString(str, valid) == [String |-> str, Valid |-> valid]
\* what scanning an SQL NULL leaves in a sql.NullTime, a sql.NullString
NullTimeNULL == NullTime(ZeroTime, FALSE)
NullStringNULL == NullString(<<>>, FALSE)

entityToRow(song) ==
    [id |-> song.ID,
     group_name |-> song.GroupName,
     name |-> song.Name,
     release_date |-> NullTime(song.SongDetail.ReleaseDate,
                               ~IsZero(song.SongDetail.ReleaseDate)),
     text |-> NullString(song.SongDetail.Text, song.SongDetail.Text # <<>>),
     link |-> NullString(song.SongDetail.Link, song.SongDetail.Link # <<>>),
     created_at |-> song.CreatedAt,
     updated_at |-> song.UpdatedAt]

\* the SET clauses with the group name copied into the title's
entityToMapMutNameFromGroup(song) ==
    LET all == [group_name |-> song.GroupName,
                name |-> song.GroupName,
                release_date |-> song.SongDetail.ReleaseDate,
                text |-> song.SongDetail.Text,
                link |-> song.SongDetail.Link]
        set == {c \in DOMAIN all :
                   IF c = "release_date" THEN ~IsZero(all[c]) ELSE all[c] # <<>>}
    IN  [c \in set |-> all[c]]

\* the SET clauses holding every field, the empty ones too
entityToMapMutAllFields(song) ==
    [group_name |-> song.GroupName,
     name |-> song.Name,
     release_date |-> song.SongDetail.ReleaseDate,
     text |-> song.SongDetail.Text,
     link |-> song.SongDetail.Link]

\* the UPDATE's SET clauses: the fields of the song that are not empty
entityToMap(song) ==
    LET all == [group_name |-> song.GroupName,
                name |-> song.Name,
                release_date |-> song.SongDetail.ReleaseDate,
                text |-> song.SongDetail.Text,
                link |-> song.SongDetail.Link]
        set == {c \in DOMAIN all :
                   IF c = "release_date" THEN ~IsZero(all[c]) ELSE all[c] # <<>>}
    IN  [c \in set |-> all[c]]

\* rowToEntity reading the text from the link column
rowToEntityMutTextFromLink(row) ==
    [ID |-> row.id,
     GroupName |-> row.group_name,
     Name |-> row.name,
     SongDetail |-> SongDetail(row.release_date.Time, row.link.String, row.link.String),
     CreatedAt |-> row.created_at,
     UpdatedAt |-> row.updated_at]

rowToEntity(row) ==
    [ID |-> row.id,
     GroupName |-> row.group_name,
     Name |-> row.name,
     SongDetail |-> SongDetail(row.release_date.Time, row.text.String, row.link.String),
     CreatedAt |-> row.created_at,
     UpdatedAt |-> row.updated_at]

rowsToEntities(rows) == [i \in 1..Len(rows) |-> rowToEntity(rows[i])]

-----------------------------------------------------------------------------
(* The 'songs' table: what the store does with the repository's statements *)

\* a time.Time is a count of ticks; a DATE column keeps whole days only
TicksPerDay == 2
DaysPerYear == 2

\* release_date DATE: the value stored for a timestamp parameter
DateOf(t) == t - (t % TicksPerDay)
\* EXTRACT(YEAR FROM d)
YearOf(t) == t \div (TicksPerDay * DaysPerYear)

\* a stored value read back into a sql.NullTime, a sql.NullString
ColTime(v) == IF v.Valid THEN NullTime(DateOf(v.Time), TRUE) ELSE NullTimeNULL
ColString(v) == IF v.Valid THEN v ELSE NullStringNULL

\* INSERT INTO songs (group_name, name, release_date, text, link) VALUES (...)
\* RETURNING *: id, created_at and updated_at take their column defaults
InsertRow(row, id, ts) ==
    [id |-> id,
     group_name |-> row.group_name,
     name |-> row.name,
     release_date |-> ColTime(row.release_date),
     text |-> ColString(row.text),
     link |-> ColString(row.link),
     created_at |-> ts,
     updated_at |-> ts]

\* the UPDATE on a table that lacks the trigger: updated_at stays
UpdateRowMutNoTrigger(row, clauses, ts) ==
    LET has(c) == c \in DOMAIN clauses
    IN  [row EXCEPT
           !.group_name = IF has("group_name") THEN clauses["group_name"] ELSE @,
           !.name = IF has("name") THEN clauses["name"] ELSE @,
           !.release_date = IF has("release_date")
                            THEN NullTime(DateOf(clauses["release_date"]), TRUE) ELSE @,
           !.text = IF has("text") THEN NullString(clauses["text"], TRUE) ELSE @,
           !.link = IF has("link") THEN NullString(clauses["link"], TRUE) ELSE @]

\* UPDATE songs SET <clauses> on one row; the trigger songs_update_updated_at
\* sets updated_at
UpdateRow(row, clauses, ts) ==
    LET has(c) == c \in DOMAIN clauses
    IN  [row EXCEPT
           !.group_name = IF has("group_name") THEN clauses["group_name"] ELSE @,
           !.name = IF has("name") THEN clauses["name"] ELSE @,
           !.release_date = IF has("release_date")
                            THEN NullTime(DateOf(clauses["release_date"]), TRUE) ELSE @,
           !.text = IF has("text") THEN NullString(clauses["text"], TRUE) ELSE @,
           !.link = IF has("link") THEN NullString(clauses["link"], TRUE) ELSE @,
           !.updated_at = ts]

\* the rows WHERE id = songID
RowsByID(table, songID) == {r \in table : r.id = songID}

-----------------------------------------------------------------------------
(* entity.SongFilter and the WHERE clauses applySongFilters builds *)

SongGroupNameFilterField == 0
SongNameFilterField == 1
SongReleaseYearFilterField == 2
SongReleaseDateFilterField == 3
SongReleaseDateAfterFilterField == 4
SongReleaseDateBeforeFilterField == 5
SongTextFilterField == 6

\* the dynamic value of a filter: a string, an int or a time.Time
StringValue(str) == [kind |-> "string", str |-> str, num |-> 0]
IntValue(n) == [kind |-> "int", str |-> <<>>, num |-> n]
TimeValue(t) == [kind |-> "time", str |-> <<>>, num |-> t]

SongFilter(field, value) == [Field |-> field, Value |-> value]

LowerChar(c) ==
    CASE c = "A" -> "a"
      [] c = "B" -> "b"
      [] OTHER -> c

Lower(str) == [i \in 1..Len(str) |-> LowerChar(str[i])]

RECURSIVE Like(_, _)
\* str LIKE pattern: % matches any run of characters, _ any one character
\* (no string of the model holds the escape character)
Like(str, pattern) ==
    IF pattern = <<>> THEN str = <<>>
    ELSE IF Head(pattern) = "%"
         THEN Like(str, Tail(pattern)) \/ (str # <<>> /\ Like(Tail(str), pattern))
    ELSE IF str = <<>> THEN FALSE
    ELSE (Head(pattern) = "_" \/ Head(pattern) = Head(str))
         /\ Like(Tail(str), Tail(pattern))

\* col ILIKE pattern, on a nullable column: NULL matches nothing
ILike(col, pattern) == col.Valid /\ Like(Lower(col.String), Lower(pattern))

\* fmt.Sprint("%", val, "%")
Percent(val) == <<"%">> \o val \o <<"%">>

\* a filter of the wrong value type adding a condition no row meets
FilterCondMutIllTypedNoMatch(row, filter) ==
    LET field == filter.Field
        value == filter.Value
    IN  CASE field = SongGroupNameFilterField /\ value.kind = "string" ->
                 ILike(NullString(row.group_name, TRUE), Percent(value.str))
          [] field = SongNameFilterField /\ value.kind = "string" ->
                 ILike(NullString(row.name, TRUE), Percent(value.str))
          [] field = SongReleaseYearFilterField /\ value.kind = "int" ->
                 row.release_date.Valid /\ YearOf(row.release_date.Time) = value.num
          [] field = SongReleaseDateFilterField /\ value.kind = "time" ->
                 row.release_date.Valid /\ row.release_date.Time = value.num
          [] field = SongReleaseDateAfterFilterField /\ value.kind = "time" ->
                 row.release_date.Valid /\ row.release_date.Time > value.num
          [] field = SongReleaseDateBeforeFilterField /\ value.kind = "time" ->
                 row.release_date.Valid /\ row.release_date.Time < value.num
          [] field = SongTextFilterField /\ value.kind = "string" ->
                 ILike(row.text, value.str)
          [] OTHER -> FALSE

\* the release-date-after filter taking the date itself too
FilterCondMutAfterInclusive(row, filter) ==
    LET field == filter.Field
        value == filter.Value
    IN  CASE field = SongGroupNameFilterField /\ value.kind = "string" ->
                 ILike(NullString(row.group_name, TRUE), Percent(value.str))
          [] field = SongNameFilterField /\ value.kind = "string" ->
                 ILike(NullString(row.name, TRUE), Percent(value.str))
          [] field = SongReleaseYearFilterField /\ value.kind = "int" ->
                 row.release_date.Valid /\ YearOf(row.release_date.Time) = value.num
          [] field = SongReleaseDateFilterField /\ value.kind = "time" ->
                 row.release_date.Valid /\ row.release_date.Time = value.num
          [] field = SongReleaseDateAfterFilterField /\ value.kind = "time" ->
                 row.release_date.Valid /\ row.release_date.Time >= value.num
          [] field = SongReleaseDateBeforeFilterField /\ value.kind = "time" ->
                 row.release_date.Valid /\ row.release_date.Time < value.num
          [] field = SongTextFilterField /\ value.kind = "string" ->
                 ILike(row.text, value.str)
          [] OTHER -> TRUE

\* the condition one filter adds to the query, evaluated on a row; TRUE when
\* the filter adds none
FilterCond(row, filter) ==
    LET field == filter.Field
        value == filter.Value
    IN  CASE field = SongGroupNameFilterField /\ value.kind = "string" ->
                 ILike(NullString(row.group_name, TRUE), Percent(value.str))
          [] field = SongNameFilterField /\ value.kind = "string" ->
                 ILike(NullString(row.name, TRUE), Percent(value.str))
          [] field = SongReleaseYearFilterField /\ value.kind = "int" ->
                 row.release_date.Valid /\ YearOf(row.release_date.Time) = value.num
          [] field = SongReleaseDateFilterField /\ value.kind = "time" ->
                 row.release_date.Valid /\ row.release_date.Time = value.num
          [] field = SongReleaseDateAfterFilterField /\ value.kind = "time" ->
                 row.release_date.Valid /\ row.release_date.Time > value.num
          [] field = SongReleaseDateBeforeFilterField /\ value.kind = "time" ->
                 row.release_date.Valid /\ row.release_date.Time < value.num
          [] field = SongTextFilterField /\ value.kind = "string" ->
                 ILike(row.text, value.str)
          [] OTHER -> TRUE

\* the builder restarted at each filter: the last condition alone applies
applySongFiltersMutLastOnly(table, filters) ==
    {r \in table : filters # <<>> => FilterCond(r, filters[Len(filters)])}

\* the rows the query built by applySongFilters selects
applySongFilters(table, filters) ==
    {r \in table : \A i \in 1..Len(filters) : FilterCond(r, filters[i])}

-----------------------------------------------------------------------------
(* The repository: each method yields what it returns, the table it leaves   *)
(* and the statements it sent to the store. ok tells whether the store       *)
(* executes the statement or fails it.                                       *)

\* a statement sent to the store, and a call of a collaborator with its song
\* argument: the entries of calls
Stmt(sql) == [fn |-> sql, song |-> <<>>, limit |-> 0, offset |-> 0]
SelectStmt(limit, offset) ==
    [fn |-> "SELECT", song |-> <<>>, limit |-> limit, offset |-> offset]
Call(fn, song) == [fn |-> fn, song |-> song, limit |-> 0, offset |-> 0]

\* LIMIT and OFFSET are bigint: the store rejects a larger literal
MaxBigint == (Modulus \div 2) - 1

OpSave == "adapter.repository.postgres.SongRepository.Save"
OpGetAll == "adapter.repository.postgres.SongRepository.GetAll"
OpGetByID == "adapter.repository.postgres.SongRepository.GetByID"
OpUpdate == "adapter.repository.postgres.SongRepository.Update"
OpDelete == "adapter.repository.postgres.SongRepository.Delete"

ErrMissingFields == "missing required fields for saving song"
ErrNoFields == "no fields provided for update"

\* Save on a store that hands out the lowest identifier no row has
SaveMutReusesFreedID(table, song, id, ts, ok) ==
    LET row == entityToRow(song)
        freed == CHOOSE i \in 1..id :
                     /\ RowsByID(table, i) = {}
                     /\ \A j \in 1..(i - 1) : RowsByID(table, j) # {}
        savedRow == InsertRow(row, freed, ts)
    IN  IF row.group_name = <<>> \/ row.name = <<>>
        THEN [song |-> <<>>, err |-> Wrap(OpSave, <<ErrMissingFields>>),
              table |-> table, stmts |-> <<>>]
        ELSE IF ~ok
        THEN [song |-> <<>>, err |-> Wrap(OpSave, <<ErrDB>>),
              table |-> table, stmts |-> <<Stmt("INSERT")>>]
        ELSE [song |-> <<rowToEntity(savedRow)>>, err |-> NoErr,
              table |-> table \cup {savedRow}, stmts |-> <<Stmt("INSERT")>>]

\* Save without the check of the required fields
SaveMutNoRequiredCheck(table, song, id, ts, ok) ==
    LET row == entityToRow(song)
        savedRow == InsertRow(row, id, ts)
    IN  IF ~ok
        THEN [song |-> <<>>, err |-> Wrap(OpSave, <<ErrDB>>),
              table |-> table, stmts |-> <<Stmt("INSERT")>>]
        ELSE [song |-> <<rowToEntity(savedRow)>>, err |-> NoErr,
              table |-> table \cup {savedRow}, stmts |-> <<Stmt("INSERT")>>]

Save(table, song, id, ts, ok) ==
    LET row == entityToRow(song)
        savedRow == InsertRow(row, id, ts)
    IN  IF row.group_name = <<>> \/ row.name = <<>>
        THEN [song |-> <<>>, err |-> Wrap(OpSave, <<ErrMissingFields>>),
              table |-> table, stmts |-> <<>>]
        ELSE IF ~ok
        THEN [song |-> <<>>, err |-> Wrap(OpSave, <<ErrDB>>),
              table |-> table, stmts |-> <<Stmt("INSERT")>>]
        ELSE [song |-> <<rowToEntity(savedRow)>>, err |-> NoErr,
              table |-> table \cup {savedRow}, stmts |-> <<Stmt("INSERT")>>]

\* GetAll up to its page query: the defaulted pagination and the rows the
\* store selected
GetAllPageQuery(table, pagination, filters, ord, ok) ==
    LET pgn == IF IsEmpty(pagination) THEN SetDefault(pagination) ELSE pagination
        page == SelectStmt(pgn.Limit, pgn.Offset)
        last == Min(pgn.Offset + pgn.Limit, Len(ord))
        rows == SubSeq(ord, pgn.Offset + 1, last)
    IN  IF ~ok \/ pgn.Limit > MaxBigint \/ pgn.Offset > MaxBigint
        THEN [rows |-> <<>>, pagination |-> pgn, err |-> Wrap(OpGetAll, <<ErrDB>>),
              stmts |-> <<page>>]
        ELSE [rows |-> rows, pagination |-> pgn, err |-> NoErr, stmts |-> <<page>>]

\* GetAll from its count query on, paged being what its page query left and
\* table the 'songs' table at the time of the count
GetAllCountQuery(table, paged, ok) ==
    LET totalCount == Cardinality(table)
    IN  IF paged.err # NoErr
        THEN [songs |-> <<>>, pagination |-> <<>>, err |-> paged.err,
              table |-> table, stmts |-> paged.stmts]
        ELSE IF ~ok
        THEN [songs |-> <<>>, pagination |-> <<>>, err |-> Wrap(OpGetAll, <<ErrDB>>),
              table |-> table, stmts |-> paged.stmts \o <<Stmt("COUNT")>>]
        ELSE [songs |-> rowsToEntities(paged.rows),
              pagination |-> <<[paged.pagination EXCEPT !.Items = Len(paged.rows),
                                                        !.Total = totalCount]>>,
              err |-> NoErr,
              table |-> table, stmts |-> paged.stmts \o <<Stmt("COUNT")>>]

\* ord: the matching rows in the order the store returns them (the query has
\* no ORDER BY); failAt: the statement the store fails, 1 the page query, 2 the
\* count query, 0 none
GetAll(table, pagination, filters, ord, failAt) ==
    GetAllCountQuery(table,
                     GetAllPageQuery(table, pagination, filters, ord, failAt # 1),
                     failAt # 2)

\* GetByID passing sql.ErrNoRows on as any other failure
GetByIDMutNoRowsUnmapped(table, songID, ok) ==
    LET found == RowsByID(table, songID)
    IN  IF ~ok
        THEN [song |-> <<>>, err |-> Wrap(OpGetByID, <<ErrDB>>),
              table |-> table, stmts |-> <<Stmt("SELECT")>>]
        ELSE IF found = {}
        THEN [song |-> <<>>, err |-> Wrap(OpGetByID, <<ErrNoRows>>),
              table |-> table, stmts |-> <<Stmt("SELECT")>>]
        ELSE [song |-> <<rowToEntity(CHOOSE r \in found : TRUE)>>, err |-> NoErr,
              table |-> table, stmts |-> <<Stmt("SELECT")>>]

GetByID(table, songID, ok) ==
    LET found == RowsByID(table, songID)
    IN  IF ~ok
        THEN [song |-> <<>>, err |-> Wrap(OpGetByID, <<ErrDB>>),
              table |-> table, stmts |-> <<Stmt("SELECT")>>]
        ELSE IF found = {}
        THEN [song |-> <<>>, err |-> Wrap(OpGetByID, <<ErrSongNotFound>>),
              table |-> table, stmts |-> <<Stmt("SELECT")>>]
        ELSE [song |-> <<rowToEntity(CHOOSE r \in found : TRUE)>>, err |-> NoErr,
              table |-> table, stmts |-> <<Stmt("SELECT")>>]

\* Update sending its statement whatever the clauses
UpdateMutNoFieldCheck(table, songID, song, ts, ok) ==
    LET clauses == entityToMap(song)
        found == RowsByID(table, songID)
        old == CHOOSE r \in found : TRUE
        updatedRow == UpdateRow(old, clauses, ts)
    IN  IF ~ok
        THEN [song |-> <<>>, err |-> Wrap(OpUpdate, <<ErrDB>>),
              table |-> table, stmts |-> <<Stmt("UPDATE")>>]
        ELSE IF found = {}
        THEN [song |-> <<>>, err |-> Wrap(OpUpdate, <<ErrSongNotFound>>),
              table |-> table, stmts |-> <<Stmt("UPDATE")>>]
        ELSE [song |-> <<rowToEntity(updatedRow)>>, err |-> NoErr,
              table |-> (table \ {old}) \cup {updatedRow},
              stmts |-> <<Stmt("UPDATE")>>]

Update(table, songID, song, ts, ok) ==
    LET clauses == entityToMap(song)
        found == RowsByID(table, songID)
        old == CHOOSE r \in found : TRUE
        updatedRow == UpdateRow(old, clauses, ts)
    IN  IF DOMAIN clauses = {}
        THEN [song |-> <<>>, err |-> Wrap(OpUpdate, <<ErrNoFields>>),
              table |-> table, stmts |-> <<>>]
        ELSE IF ~ok
        THEN [song |-> <<>>, err |-> Wrap(OpUpdate, <<ErrDB>>),
              table |-> table, stmts |-> <<Stmt("UPDATE")>>]
        ELSE IF found = {}
        THEN [song |-> <<>>, err |-> Wrap(OpUpdate, <<ErrSongNotFound>>),
              table |-> table, stmts |-> <<Stmt("UPDATE")>>]
        ELSE [song |-> <<rowToEntity(updatedRow)>>, err |-> NoErr,
              table |-> (table \ {old}) \cup {updatedRow},
              stmts |-> <<Stmt("UPDATE")>>]

\* Delete returning the count without looking at it
DeleteMutZeroRowsSucceed(table, songID, ok) ==
    LET found == RowsByID(table, songID)
        rowsAffected == Cardinality(found)
    IN  IF ~ok
        THEN [deleted |-> 0, err |-> Wrap(OpDelete, <<ErrDB>>),
              table |-> table, stmts |-> <<Stmt("DELETE")>>]
        ELSE [deleted |-> rowsAffected, err |-> NoErr,
              table |-> table \ found, stmts |-> <<Stmt("DELETE")>>]

\* Delete taking any count but one for a song that was not found
DeleteReportingMutExactlyOne(table, songID, rowsAffected) ==
    LET found == RowsByID(table, songID)
    IN  IF rowsAffected # 1
        THEN [deleted |-> 0, err |-> Wrap(OpDelete, <<ErrSongNotFound>>),
              table |-> table \ found, stmts |-> <<Stmt("DELETE")>>]
        ELSE [deleted |-> rowsAffected, err |-> NoErr,
              table |-> table \ found, stmts |-> <<Stmt("DELETE")>>]

\* Delete once the store has executed the statement and res.RowsAffected()
\* has reported rowsAffected
DeleteReporting(table, songID, rowsAffected) ==
    LET found == RowsByID(table, songID)
    IN  IF rowsAffected = 0
        THEN [deleted |-> 0, err |-> Wrap(OpDelete, <<ErrSongNotFound>>),
              table |-> table \ found, stmts |-> <<Stmt("DELETE")>>]
        ELSE [deleted |-> rowsAffected, err |-> NoErr,
              table |-> table \ found, stmts |-> <<Stmt("DELETE")>>]

\* on the 'songs' table the count is that of the rows WHERE id = songID
Delete(table, songID, ok) ==
    IF ~ok
    THEN [deleted |-> 0, err |-> Wrap(OpDelete, <<ErrDB>>),
          table |-> table, stmts |-> <<Stmt("DELETE")>>]
    ELSE DeleteReporting(table, songID, Cardinality(RowsByID(table, songID)))

-----------------------------------------------------------------------------
(* The use case: SongUseCase *)

UcAddSong == "usecase.AddSong"
UcFetchSongs == "usecase.FetchSongs"
UcFetchSongText == "usecase.FetchSongText"
UcModifySong == "usecase.ModifySong"
UcRemoveSong == "usecase.RemoveSong"

\* a single line break as the verse separator
VerseSepMutSingleBreak == <<NL>>

\* the verse separator of FetchSongWithVerses
VerseSep == <<NL, NL>>

\* what an invocation returned, with every result nil; query holds what a
\* request handler was given besides
Returned(op) ==
    [op |-> op, songID |-> NilID, arg |-> <<>>, request |-> <<>>, filters |-> <<>>,
     lookup |-> <<>>, err |-> NoErr, panic |-> FALSE, song |-> <<>>, songs |-> <<>>,
     verses |-> <<>>, pagination |-> <<>>, deleted |-> 0, query |-> <<>>]

\* a split that special-cases the empty text into no verses
SplitVersesMutEmptyText(text) == IF text = <<>> THEN <<>> ELSE Split(text, VerseSep)

\* strings.Split(song.SongDetail.Text, "\n\n")
SplitVerses(text) == Split(text, VerseSep)

\* a slice of the right length taken from the start: s[:hi-lo]
SliceMutFromStart(s, lo, hi) == SubSeq(s, 1, hi - lo)

\* the slice expression s[lo:hi], for lo <= hi <= len(s)
Slice(s, lo, hi) == SubSeq(s, lo + 1, hi)

\* FetchSongWithVerses after GetByID has returned song: the split, the
\* defaulting, the clamping and the slice verses[offset:limit], which panics
\* when limit < offset
VersesOf(song, pagination) ==
    LET verses == SplitVerses(song.SongDetail.Text)
        versesCount == Len(verses)
        pgn == IF IsEmpty(pagination) THEN SetDefault(pagination) ELSE pagination
        offset == IF pgn.Offset > versesCount THEN versesCount ELSE pgn.Offset
        sum == U64Add(offset, pgn.Limit)
        limit == IF sum > versesCount THEN versesCount ELSE sum
        slice == Slice(verses, offset, limit)
    IN  IF limit < offset
        THEN [panic |-> TRUE, verses |-> <<>>, pagination |-> <<>>]
        ELSE [panic |-> FALSE,
              verses |-> <<[ID |-> song.ID, GroupName |-> song.GroupName,
                            Name |-> song.Name, Verses |-> slice,
                            CreatedAt |-> song.CreatedAt,
                            UpdatedAt |-> song.UpdatedAt]>>,
              pagination |-> <<[pgn EXCEPT !.Items = Len(slice),
                                           !.Total = versesCount]>>]

\* AddSong going on to Save when the lookup has failed
AddSongMutSaveAnyway(song, lookup, ok) ==
    LET merged == IF lookup = <<>> THEN song ELSE [song EXCEPT !.SongDetail = lookup[1]]
        r == Save(songs, merged, nextID, now, ok)
        base == [Returned("AddSong") EXCEPT !.arg = <<song>>, !.lookup = lookup]
    IN  /\ nextID <= MaxSongs
        /\ now <= MaxClock
        /\ UNCHANGED listing
        /\ ret' = [base EXCEPT
                     !.err = IF r.err = NoErr THEN NoErr ELSE Wrap(UcAddSong, r.err),
                     !.song = IF r.err = NoErr THEN r.song ELSE <<>>]
        /\ calls' = <<Call("FetchSongInfo", <<song>>),
                      Call("Save", <<merged>>)>> \o r.stmts
        /\ songs' = r.table
        /\ nextID' = IF r.err = NoErr THEN nextID + 1 ELSE nextID
        /\ now' = IF r.err = NoErr THEN now + 1 ELSE now

\* AddSong saving the song of the request without the detail looked up
AddSongMutNoMerge(song, lookup, ok) ==
    LET r == Save(songs, song, nextID, now, ok)
        base == [Returned("AddSong") EXCEPT !.arg = <<song>>, !.lookup = lookup]
    IN  /\ nextID <= MaxSongs
        /\ now <= MaxClock
        /\ UNCHANGED listing
        /\ IF lookup = <<>>
           THEN /\ ret' = [base EXCEPT !.err = Wrap(UcAddSong, <<ErrAPI>>)]
                /\ calls' = <<Call("FetchSongInfo", <<song>>)>>
                /\ UNCHANGED <<songs, nextID, now>>
           ELSE /\ ret' = [base EXCEPT
                              !.err = IF r.err = NoErr THEN NoErr
                                      ELSE Wrap(UcAddSong, r.err),
                              !.song = IF r.err = NoErr THEN r.song ELSE <<>>]
                /\ calls' = <<Call("FetchSongInfo", <<song>>),
                              Call("Save", <<song>>)>> \o r.stmts
                /\ songs' = r.table
                /\ nextID' = IF r.err = NoErr THEN nextID + 1 ELSE nextID
                /\ now' = IF r.err = NoErr THEN now + 1 ELSE now

\* lookup: what the music info API returned, nil when it failed
AddSong(song, lookup, ok) ==
    LET merged == [song EXCEPT !.SongDetail = lookup[1]]
        r == Save(songs, merged, nextID, now, ok)
        base == [Returned("AddSong") EXCEPT !.arg = <<song>>, !.lookup = lookup]
    IN  /\ nextID <= MaxSongs
        /\ now <= MaxClock
        /\ UNCHANGED listing
        /\ IF lookup = <<>>
           THEN /\ ret' = [base EXCEPT !.err = Wrap(UcAddSong, <<ErrAPI>>)]
                /\ calls' = <<Call("FetchSongInfo", <<song>>)>>
                /\ UNCHANGED <<songs, nextID, now>>
           ELSE /\ ret' = [base EXCEPT
                              !.err = IF r.err = NoErr THEN NoErr
                                      ELSE Wrap(UcAddSong, r.err),
                              !.song = IF r.err = NoErr THEN r.song ELSE <<>>]
                /\ calls' = <<Call("FetchSongInfo", <<song>>),
                              Call("Save", <<merged>>)>> \o r.stmts
                /\ songs' = r.table
                /\ nextID' = IF r.err = NoErr THEN nextID + 1 ELSE nextID
                /\ now' = IF r.err = NoErr THEN now + 1 ELSE now

\* FetchSongs, r being what the repository's GetAll returns
FetchSongsGiven(pagination, filters, r) ==
    LET base == [Returned("FetchSongs") EXCEPT
                   !.request = <<pagination>>, !.filters = filters]
    IN  /\ ret' = [base EXCEPT
                     !.err = IF r.err = NoErr THEN NoErr
                             ELSE Wrap(UcFetchSongs, r.err),
                     !.songs = IF r.err = NoErr THEN r.songs ELSE <<>>,
                     !.pagination = IF r.err = NoErr THEN r.pagination ELSE <<>>]
        /\ calls' = <<Call("GetAll", <<>>)>> \o r.stmts
        /\ UNCHANGED <<songs, nextID, now>>

FetchSongs(pagination, filters, ord, failAt) ==
    /\ FetchSongsGiven(pagination, filters,
                       GetAll(songs, pagination, filters, ord, failAt))
    /\ UNCHANGED listing

FetchSongWithVerses(songID, pagination, ok) ==
    LET r == GetByID(songs, songID, ok)
        v == VersesOf(r.song[1], pagination)
        base == [Returned("FetchSongWithVerses") EXCEPT
                   !.songID = songID, !.request = <<pagination>>]
    IN  /\ ret' = IF r.err # NoErr
                  THEN [base EXCEPT !.err = Wrap(UcFetchSongText, r.err)]
                  ELSE [base EXCEPT !.panic = v.panic,
                                    !.verses = v.verses,
                                    !.pagination = v.pagination]
        /\ calls' = <<Call("GetByID", <<>>)>> \o r.stmts
        /\ UNCHANGED <<songs, nextID, now, listing>>

\* ModifySong trying the update a second time when the store failed it
ModifySongMutRetryOnce(songID, song, ok) ==
    LET first == Update(songs, songID, song, now, ok)
        retried == Is(first.err, ErrDB)
        r == IF retried THEN Update(songs, songID, song, now, TRUE) ELSE first
        again == IF retried THEN <<Call("Update", <<song>>)>> \o r.stmts ELSE <<>>
        base == [Returned("ModifySong") EXCEPT !.songID = songID, !.arg = <<song>>]
    IN  /\ r.err = NoErr => now <= MaxClock
        /\ ret' = [base EXCEPT
                     !.err = IF r.err = NoErr THEN NoErr
                             ELSE Wrap(UcModifySong, r.err),
                     !.song = IF r.err = NoErr THEN r.song ELSE <<>>]
        /\ calls' = <<Call("Update", <<song>>)>> \o first.stmts \o again
        /\ songs' = r.table
        /\ now' = IF r.err = NoErr THEN now + 1 ELSE now
        /\ UNCHANGED <<nextID, listing>>

ModifySong(songID, song, ok) ==
    LET r == Update(songs, songID, song, now, ok)
        base == [Returned("ModifySong") EXCEPT !.songID = songID, !.arg = <<song>>]
    IN  /\ r.err = NoErr => now <= MaxClock
        /\ ret' = [base EXCEPT
                     !.err = IF r.err = NoErr THEN NoErr
                             ELSE Wrap(UcModifySong, r.err),
                     !.song = IF r.err = NoErr THEN r.song ELSE <<>>]
        /\ calls' = <<Call("Update", <<song>>)>> \o r.stmts
        /\ songs' = r.table
        /\ now' = IF r.err = NoErr THEN now + 1 ELSE now
        /\ UNCHANGED <<nextID, listing>>

\* RemoveSong, r being what the repository's Delete returns
RemoveSongGiven(songID, r, query) ==
    LET base == [Returned("RemoveSong") EXCEPT !.songID = songID, !.query = query]
    IN  /\ ret' = [base EXCEPT
                     !.err = IF r.err = NoErr THEN NoErr
                             ELSE Wrap(UcRemoveSong, r.err),
                     !.deleted = IF r.err = NoErr THEN r.deleted ELSE 0]
        /\ calls' = <<Call("Delete", <<>>)>> \o r.stmts
        /\ songs' = r.table
        /\ UNCHANGED <<nextID, now, listing>>

RemoveSong(songID, ok) == RemoveSongGiven(songID, Delete(songs, songID, ok), <<>>)

-----------------------------------------------------------------------------
(* The HTTP handlers: the status each answers with for what the use case    *)
(* returned                                                                  *)

StatusOK == 200
StatusCreated == 201
StatusNoContent == 204
StatusNotFound == 404
StatusInternalServerError == 500

addSongStatus(err) ==
    IF err # NoErr THEN StatusInternalServerError ELSE StatusCreated

\* the handler comparing the error with ==, not with errors.Is
fetchSongWithVersesStatusMutPlainEquality(err) ==
    IF err # NoErr
    THEN IF err = <<ErrSongNotFound>> THEN StatusNotFound
         ELSE StatusInternalServerError
    ELSE StatusOK

fetchSongWithVersesStatus(err) ==
    IF err # NoErr
    THEN IF Is(err, ErrSongNotFound) THEN StatusNotFound
         ELSE StatusInternalServerError
    ELSE StatusOK

modifySongStatus(err) ==
    IF err # NoErr
    THEN IF Is(err, ErrSongNotFound) THEN StatusNotFound
         ELSE StatusInternalServerError
    ELSE StatusOK

removeSongStatus(err) ==
    IF err # NoErr
    THEN IF Is(err, ErrSongNotFound) THEN StatusNotFound
         ELSE StatusInternalServerError
    ELSE StatusNoContent

\* removeSong's logger.Error("removed more than one object")
removeSongLogsError(removed, err) == err = NoErr /\ removed > 1

\* the status the handler of an invocation answers with; a panic of the use
\* case never comes back to the handler
HandlerStatus(rt) ==
    CASE rt.op = "AddSong" -> addSongStatus(rt.err)
      [] rt.op = "FetchSongWithVerses" -> fetchSongWithVersesStatus(rt.err)
      [] rt.op = "ModifySong" -> modifySongStatus(rt.err)
      [] rt.op = "RemoveSong" -> removeSongStatus(rt.err)
      [] OTHER -> 0

-----------------------------------------------------------------------------
(* The catalog: every operation of the use case on a small store *)

Init ==
    /\ songs = {}
    /\ nextID = 1
    /\ now = 1
    /\ calls = <<>>
    /\ ret = Returned("none")
    /\ listing = <<>>

\* the identifiers handed out, and one that never is
IDs == 1..(MaxSongs + 1)

TwoVerses == <<"a", NL, "b", NL, NL, "B">>

\* the songs of the add requests
NewSongs ==
    {Song(<<"A", "b">>, <<"a">>, SongDetail(ZeroTime, <<>>, <<>>)),
     Song(<<"A", "b">>, <<>>, SongDetail(ZeroTime, <<>>, <<>>)),
     Song(<<>>, <<"a">>, SongDetail(ZeroTime, <<>>, <<>>))}

\* what the music info API may return: nil, an empty detail, a full one. A
\* release date is a calendar date: time.Parse("02.01.2006", ...) gives the
\* midnight of its day
Lookups ==
    {<<>>,
     <<SongDetail(ZeroTime, <<>>, <<>>)>>,
     <<SongDetail(TicksPerDay, TwoVerses, <<"l">>)>>}

\* the partial songs of the update requests
Partials ==
    {Song(<<>>, <<>>, SongDetail(ZeroTime, <<>>, <<>>)),
     Song(<<>>, <<>>, SongDetail(ZeroTime, <<"a">>, <<>>)),
     Song(<<"b">>, <<"B">>, SongDetail(TicksPerDay * 2, <<>>, <<"m">>))}

\* the paginations of the requests, the empty one among them
Paginations ==
    {Pagination(0, 0), Pagination(0, 5), Pagination(1, 1)}

FilterLists ==
    {<<>>,
     <<SongFilter(SongGroupNameFilterField, StringValue(<<"B">>)),
       SongFilter(SongNameFilterField, IntValue(1))>>,
     <<SongFilter(SongReleaseDateAfterFilterField, TimeValue(ZeroTime)),
       SongFilter(SongTextFilterField, StringValue(<<"%", "b", "%">>))>>}

\* the orders in which the store may return a set of rows
Orderings(rows) ==
    {ord \in [1..Cardinality(rows) -> rows] :
        \A i, j \in DOMAIN ord : ord[i] = ord[j] => i = j}

\* Each operation runs on every input with the store answering, and on one
\* input with the store failing the statement.

DoAddSong ==
    \/ \E s \in NewSongs, lookup \in Lookups : AddSong(s, lookup, TRUE)
    \/ \E s \in NewSongs, lookup \in Lookups :
          /\ lookup # <<>>
          /\ Save(songs, [s EXCEPT !.SongDetail = lookup[1]], nextID, now, TRUE).err = NoErr
          /\ AddSong(s, lookup, FALSE)

DoFetchSongs ==
    \/ \E p \in Paginations, fs \in FilterLists :
          \E ord \in Orderings(applySongFilters(songs, fs)) :
              FetchSongs(p, fs, ord, 0)
    \/ \E failAt \in 1..2 :
          FetchSongs(Pagination(0, 0), <<>>,
                     CHOOSE ord \in Orderings(songs) : TRUE, failAt)

DoFetchSongWithVerses ==
    \/ \E id \in IDs, p \in Paginations : FetchSongWithVerses(id, p, TRUE)
    \/ \E id \in IDs : FetchSongWithVerses(id, Pagination(0, 0), FALSE)

DoModifySong ==
    \/ \E id \in IDs, s \in Partials : ModifySong(id, s, TRUE)
    \/ \E id \in IDs, s \in Partials :
          /\ DOMAIN entityToMap(s) # {}
          /\ ModifySong(id, s, FALSE)

DoRemoveSong ==
    \E id \in IDs, ok \in BOOLEAN : RemoveSong(id, ok)

Next ==
    \/ DoAddSong
    \/ DoFetchSongs
    \/ DoFetchSongWithVerses
    \/ DoModifySong
    \/ DoRemoveSong

Spec == Init /\ [][Next]_vars

-----------------------------------------------------------------------------
(* Paging: one song with any short lyric text, or a long one, read back     *)
(* under every pagination, the extreme ones among them                       *)

\* a lyric text of DefaultLimit + 1 verses, every other verse empty
ManyVerses ==
    Join([i \in 1..(DefaultLimit + 1) |-> IF i % 2 = 1 THEN <<"a">> ELSE <<>>],
         <<NL, NL>>)

\* every string of at most n characters over the letter a and the line break
RECURSIVE TextsUpTo(_)
TextsUpTo(n) ==
    IF n = 0 THEN {<<>>}
    ELSE LET shorter == TextsUpTo(n - 1)
         IN  shorter \cup {Append(t, c) : t \in shorter, c \in {"a", NL}}

\* "line1\n\nline2"
Line1Line2 ==
    <<"l", "i", "n", "e", "1", NL, NL, "l", "i", "n", "e", "2">>

PagingTexts == TextsUpTo(MaxTextLen) \cup {ManyVerses, Line1Line2}

PagingOffsets == (0..4) \cup {DefaultLimit, DefaultLimit + 1, DefaultLimit + 2, MaxUint}
PagingLimits == (0..3) \cup {5, DefaultLimit, MaxUint - 1, MaxUint}

PagingAddSong ==
    \E t \in PagingTexts :
        /\ nextID = 1
        /\ AddSong(Song(<<"A", "b">>, <<"a">>, SongDetail(ZeroTime, <<>>, <<>>)),
                   <<SongDetail(TicksPerDay, t, <<"l">>)>>, TRUE)

PagingFetchSongWithVerses ==
    \E offset \in PagingOffsets, limit \in PagingLimits :
        FetchSongWithVerses(1, Pagination(offset, limit), TRUE)

PagingFetchSongs ==
    \E p \in Paginations, failAt \in 0..2 :
        FetchSongs(p, <<>>, CHOOSE ord \in Orderings(songs) : TRUE, failAt)

PagingNext ==
    \/ PagingAddSong
    \/ PagingFetchSongWithVerses
    \/ PagingFetchSongs

SpecPaging == Init /\ [][PagingNext]_vars

-----------------------------------------------------------------------------
(* Listing: a store of a few different songs listed under every filter,     *)
(* alone and in pairs, well typed and not                                    *)

\* the songs of the store, each with the detail its lookup returns: one with
\* every field set, one released a day later, one without date and text
ListingSongs ==
    {<<Song(<<"A", "b">>, <<"a">>, SongDetail(ZeroTime, <<>>, <<>>)),
       SongDetail(TicksPerDay, TwoVerses, <<"l">>)>>,
     <<Song(<<"b">>, <<"B", "a">>, SongDetail(ZeroTime, <<>>, <<>>)),
       SongDetail(TicksPerDay * 2, <<"b">>, <<"l">>)>>,
     <<Song(<<"A">>, <<"b">>, SongDetail(ZeroTime, <<>>, <<>>)),
       SongDetail(ZeroTime, <<>>, <<"l">>)>>}

\* one filter of the right value type for each field
TypedFilters ==
    {SongFilter(SongGroupNameFilterField, StringValue(<<"B">>)),
     SongFilter(SongNameFilterField, StringValue(<<"a">>)),
     SongFilter(SongReleaseYearFilterField, IntValue(YearOf(TicksPerDay))),
     SongFilter(SongReleaseDateFilterField, TimeValue(TicksPerDay)),
     SongFilter(SongReleaseDateAfterFilterField, TimeValue(TicksPerDay)),
     SongFilter(SongReleaseDateBeforeFilterField, TimeValue(TicksPerDay * 2)),
     SongFilter(SongTextFilterField, StringValue(<<"b">>))}

\* one filter of a wrong value type for each field
IllTypedFilters ==
    {SongFilter(SongGroupNameFilterField, IntValue(1)),
     SongFilter(SongNameFilterField, IntValue(1)),
     SongFilter(SongReleaseYearFilterField, StringValue(<<"b">>)),
     SongFilter(SongReleaseDateFilterField, IntValue(TicksPerDay)),
     SongFilter(SongReleaseDateAfterFilterField, StringValue(<<"b">>)),
     SongFilter(SongReleaseDateBeforeFilterField, IntValue(TicksPerDay)),
     SongFilter(SongTextFilterField, TimeValue(TicksPerDay))}

\* the filters that are combined in pairs, in both orders
PairedFilters ==
    {SongFilter(SongGroupNameFilterField, StringValue(<<"B">>)),
     SongFilter(SongNameFilterField, StringValue(<<"b">>)),
     SongFilter(SongReleaseDateAfterFilterField, TimeValue(TicksPerDay)),
     SongFilter(SongNameFilterField, IntValue(1))}

ListingFilterLists ==
    {<<>>} \cup {<<f>> : f \in TypedFilters \cup IllTypedFilters}
           \cup {<<f, g>> : f, g \in PairedFilters}

ListingPaginations ==
    {Pagination(0, 0), Pagination(0, 1), Pagination(1, 1)}

ListingAddSong ==
    \E s \in ListingSongs : AddSong(s[1], <<s[2]>>, TRUE)

ListingFetchSongs ==
    \E p \in ListingPaginations, fs \in ListingFilterLists :
        \E ord \in Orderings(applySongFilters(songs, fs)) :
            FetchSongs(p, fs, ord, 0)

ListingNext ==
    \/ ListingAddSong
    \/ ListingFetchSongs

SpecListing == Init /\ [][ListingNext]_vars

-----------------------------------------------------------------------------
(* Requests: what the handlers make of the query parameters, and what       *)
(* removeSong answers for each count of deleted rows                         *)

\* counts of affected rows a delete is made to report
MaxAffected == 2

Digits == <<"0", "1", "2", "3", "4", "5", "6", "7", "8", "9">>
IsDigit(c) == \E d \in 1..10 : Digits[d] = c
DigitValue(c) == (CHOOSE d \in 1..10 : Digits[d] = c) - 1

RECURSIVE DecimalValue(_)
\* the number a string of digits spells
DecimalValue(str) ==
    IF str = <<>> THEN 0
    ELSE DecimalValue(Take(str, Len(str) - 1)) * 10 + DigitValue(str[Len(str)])

AllDigits(str) == str # <<>> /\ \A i \in 1..Len(str) : IsDigit(str[i])

\* strconv.ParseUint(param, 10, 64): no sign, digits only, at most MaxUint
ParseUint(param) ==
    IF AllDigits(param) /\ DecimalValue(param) <= MaxUint
    THEN [value |-> DecimalValue(param), err |-> FALSE]
    ELSE [value |-> 0, err |-> TRUE]

\* strconv.Atoi(param): an optional sign, then digits (a value of the model
\* never leaves the range of int)
Atoi(param) ==
    LET signed == param # <<>> /\ param[1] \in {"+", "-"}
        digits == IF signed THEN Tail(param) ELSE param
    IN  IF AllDigits(digits)
        THEN [value |-> IF signed /\ param[1] = "-" THEN 0 - DecimalValue(digits)
                        ELSE DecimalValue(digits),
              err |-> FALSE]
        ELSE [value |-> 0, err |-> TRUE]

\* time.Parse("02.01.2006", param) on the calendar of the model, where a date
\* is written day.year, the days of a year being 1..DaysPerYear and year 0 day
\* 1 the zero time
ParseDate(param) ==
    IF /\ Len(param) = 3
       /\ IsDigit(param[1])
       /\ param[2] = "."
       /\ IsDigit(param[3])
       /\ DigitValue(param[1]) \in 1..DaysPerYear
    THEN [value |-> (DigitValue(param[3]) * DaysPerYear + DigitValue(param[1]) - 1)
                        * TicksPerDay,
          err |-> FALSE]
    ELSE [value |-> 0, err |-> TRUE]

getUintQueryParam(param, defaultValue) ==
    IF param # <<>> /\ ~ParseUint(param).err
    THEN ParseUint(param).value
    ELSE defaultValue

\* parsePagination giving up both parameters when one does not parse
parsePaginationMutAllOrNothing(query) ==
    IF (query.offset # <<>> /\ ~ParseUint(query.offset).err) /\ (query.limit # <<>> /\ ~ParseUint(query.limit).err)
    THEN Pagination(ParseUint(query.offset).value, ParseUint(query.limit).value)
    ELSE Pagination(DefaultOffset, DefaultLimit)

parsePagination(query) ==
    Pagination(getUintQueryParam(query.offset, DefaultOffset),
               getUintQueryParam(query.limit, DefaultLimit))

addStringFilter(param, field) ==
    IF param # <<>> THEN <<SongFilter(field, StringValue(param))>> ELSE <<>>

addIntFilter(param, field) ==
    IF param # <<>> /\ ~Atoi(param).err
    THEN <<SongFilter(field, IntValue(Atoi(param).value))>>
    ELSE <<>>

addDateFilter(param, field) ==
    IF param # <<>> /\ ~ParseDate(param).err
    THEN <<SongFilter(field, TimeValue(ParseDate(param).value))>>
    ELSE <<>>

parseSongFilters(query) ==
    addStringFilter(query.groupName, SongGroupNameFilterField)
    \o addStringFilter(query.name, SongNameFilterField)
    \o addIntFilter(query.releaseYear, SongReleaseYearFilterField)
    \o addDateFilter(query.releaseDate, SongReleaseDateFilterField)
    \o addDateFilter(query.releaseDateAfter, SongReleaseDateAfterFilterField)
    \o addDateFilter(query.releaseDateBefore, SongReleaseDateBeforeFilterField)
    \o addStringFilter(query.text, SongTextFilterField)

\* every string of at most n characters of an alphabet
RECURSIVE StringsUpTo(_, _)
StringsUpTo(alphabet, n) ==
    IF n = 0 THEN {<<>>}
    ELSE LET shorter == StringsUpTo(alphabet, n - 1)
         IN  shorter \cup {Append(t, c) : t \in shorter, c \in alphabet}

\* the values of the offset and limit parameters; an absent parameter reads
\* as the empty string
UintParams == StringsUpTo({"0", "1", "4", "9", "x", "-"}, 2)

TextParams == {<<>>, <<"a">>}
YearParams == {<<>>, <<"1">>, <<"-", "1">>, <<"1", ".", "1">>, <<"x">>}
DateParams == {<<>>, <<"1", ".", "1">>, <<"2", ".", "0">>, <<"0", ".", "1">>, <<"1">>}

PaginationQueries ==
    {[for |-> "parsePagination", offset |-> offset, limit |-> limit] :
        offset \in UintParams, limit \in UintParams}

FilterQueries ==
    {[for |-> "parseSongFilters", groupName |-> groupName, name |-> name,
      releaseYear |-> releaseYear, releaseDate |-> releaseDate,
      releaseDateAfter |-> releaseDateAfter,
      releaseDateBefore |-> releaseDateBefore, text |-> text] :
        groupName \in TextParams, name \in TextParams, releaseYear \in YearParams,
        releaseDate \in DateParams, releaseDateAfter \in DateParams,
        releaseDateBefore \in DateParams, text \in TextParams}

\* a delete request for a song, on a store whose driver reports rowsAffected
\* deleted rows, as sqlmock.NewResult(0, rowsAffected) does in the
\* repository's tests; on the 'songs' table PRIMARY KEY(id) keeps the count
\* at 0 or 1
RemovalQueries ==
    {[for |-> "removeSong", songID |-> id, rowsAffected |-> rowsAffected] :
        id \in IDs, rowsAffected \in 0..MaxAffected}

\* the row of a song saved at time 1 under id 1
StoredSong ==
    InsertRow(entityToRow(Song(<<"A", "b">>, <<"a">>,
                               SongDetail(TicksPerDay, TwoVerses, <<"l">>))), 1, 1)

\* a request has arrived and its handler has not run yet
Pending(query) == [Returned("request") EXCEPT !.query = <<query>>]

InitRequests ==
    /\ calls = <<>>
    /\ listing = <<>>
    /\ \/ /\ songs = {}
          /\ nextID = 1
          /\ now = 1
          /\ ret \in {Pending(q) : q \in PaginationQueries \cup FilterQueries
                                          \cup RemovalQueries}
       \/ /\ songs = {StoredSong}
          /\ nextID = 2
          /\ now = 2
          /\ ret \in {Pending(q) : q \in RemovalQueries}

ParsePaginationRequest ==
    /\ ret.op = "request"
    /\ ret.query[1].for = "parsePagination"
    /\ ret' = [Returned("parsePagination") EXCEPT
                 !.query = ret.query,
                 !.pagination = <<parsePagination(ret.query[1])>>]
    /\ calls' = <<>>
    /\ UNCHANGED <<songs, nextID, now, listing>>

ParseSongFiltersRequest ==
    /\ ret.op = "request"
    /\ ret.query[1].for = "parseSongFilters"
    /\ ret' = [Returned("parseSongFilters") EXCEPT
                 !.query = ret.query,
                 !.filters = parseSongFilters(ret.query[1])]
    /\ calls' = <<>>
    /\ UNCHANGED <<songs, nextID, now, listing>>

RemoveSongRequest ==
    /\ ret.op = "request"
    /\ ret.query[1].for = "removeSong"
    /\ RemoveSongGiven(ret.query[1].songID,
                       DeleteReporting(songs, ret.query[1].songID,
                                       ret.query[1].rowsAffected),
                       ret.query)

RequestsNext ==
    \/ ParsePaginationRequest
    \/ ParseSongFiltersRequest
    \/ RemoveSongRequest

SpecRequests == InitRequests /\ [][RequestsNext]_vars

-----------------------------------------------------------------------------
(* Concurrent requests: a listing whose two queries are separate statements *)
(* of the store, with additions and removals of other requests in between   *)

ConcurrentPaginations == {Pagination(0, 0), Pagination(0, 1), Pagination(1, 1)}

ConcurrentAddSong ==
    \E lookup \in Lookups \ {<<>>} :
        AddSong(Song(<<"A", "b">>, <<"a">>, SongDetail(ZeroTime, <<>>, <<>>)),
                lookup, TRUE)

ConcurrentRemoveSong == \E id \in IDs : RemoveSong(id, TRUE)

\* FetchSongs up to the return of GetAll's page query
BeginFetchSongs ==
    \E p \in ConcurrentPaginations :
        \E ord \in Orderings(applySongFilters(songs, <<>>)) :
            /\ listing = <<>>
            /\ listing' = <<[request |-> p,
                             paged |-> GetAllPageQuery(songs, p, <<>>, ord, TRUE)]>>
            /\ calls' = <<Call("GetAll", <<>>)>> \o listing'[1].paged.stmts
            /\ UNCHANGED <<songs, nextID, now, ret>>

\* the rest of FetchSongs: GetAll's count query on the table as it is by then
FinishFetchSongs ==
    /\ listing # <<>>
    /\ FetchSongsGiven(listing[1].request, <<>>,
                       GetAllCountQuery(songs, listing[1].paged, TRUE))
    /\ listing' = <<>>

ConcurrentNext ==
    \/ ConcurrentAddSong
    \/ ConcurrentRemoveSong
    \/ BeginFetchSongs
    \/ FinishFetchSongs

SpecConcurrent == Init /\ [][ConcurrentNext]_vars

-----------------------------------------------------------------------------
(* What the claims speak of *)

DoubleBreak == <<NL, NL>>

\* the last invocation was FetchSongWithVerses for a stored song, and the
\* store answered
FetchedStored ==
    /\ ret.op = "FetchSongWithVerses"
    /\ RowsByID(songs, ret.songID) # {}
    /\ ~Is(ret.err, ErrDB)

\* the lyric text of the song the last invocation addressed
StoredText == (CHOOSE r \in songs : r.id = ret.songID).text.String
\* its full split, and N
FullSplit == Split(StoredText, DoubleBreak)
VerseCount == Len(FullSplit)

\* the last invocation returned a song with verses and a pagination, no error
Succeeded ==
    /\ ~ret.panic
    /\ ret.err = NoErr
    /\ ret.verses # <<>>
    /\ ret.pagination # <<>>

Requested == ret.request[1]
\* the pagination after defaulting
Effective ==
    IF Requested.Offset = 0 /\ Requested.Limit = 0
    THEN [Requested EXCEPT !.Limit = 20]
    ELSE Requested

ReturnedVerses == ret.verses[1].Verses
ReturnedPagination == ret.pagination[1]

\* C1: for a song of N verses, a requested offset >= N with any limit makes
\* FetchSongWithVerses succeed with no verses, items = 0 and total = N.
\* The code does not: see C1 in RESULTS.json.
C1_OffsetBeyondEnd ==
    (FetchedStored /\ Requested.Offset >= VerseCount) =>
        /\ Succeeded
        /\ ReturnedVerses = <<>>
        /\ ReturnedPagination.Items = 0
        /\ ReturnedPagination.Total = VerseCount

\* C2: for a song of N > 0 verses and an effective pagination with
\* offset < N, items = min(limit, N - offset) and as many verses are returned.
\* The code does not: see C2 in RESULTS.json.
C2_ItemsWithinRange ==
    (FetchedStored /\ VerseCount > 0 /\ Effective.Offset < VerseCount) =>
        /\ Succeeded
        /\ ReturnedPagination.Items =
               Min(Effective.Limit, VerseCount - Effective.Offset)
        /\ Len(ReturnedVerses) = ReturnedPagination.Items

\* the page query GetAll sent, the second entry of calls
PageQuery == calls[2]

\* C3: in FetchSongWithVerses and in GetAll the requested pagination (0, 0)
\* becomes (0, 20) before the slicing and the querying and is reported as
\* (0, 20); the requested (0, 5) is used and reported as given.
C3_EmptyPaginationDefaulted ==
    /\ (FetchedStored /\ Requested \in {Pagination(0, 0), Pagination(0, 5)}) =>
          /\ Succeeded
          /\ ReturnedPagination.Offset = 0
          /\ ReturnedPagination.Limit = (IF Requested.Limit = 0 THEN 20 ELSE 5)
          /\ ReturnedPagination.Items = Min(ReturnedPagination.Limit, VerseCount)
          /\ Len(ReturnedVerses) = ReturnedPagination.Items
    /\ (ret.op = "FetchSongs" /\ Requested \in {Pagination(0, 0), Pagination(0, 5)}) =>
          /\ PageQuery.fn = "SELECT"
          /\ PageQuery.offset = 0
          /\ PageQuery.limit = (IF Requested.Limit = 0 THEN 20 ELSE 5)
          /\ ret.err = NoErr =>
                /\ ReturnedPagination.Offset = 0
                /\ ReturnedPagination.Limit = PageQuery.limit
                /\ Len(ret.songs) = Min(PageQuery.limit, Cardinality(songs))

\* the empty pagination read a song of more than 20 verses: 20 came back
C3_Witness ==
    /\ FetchedStored
    /\ Requested = Pagination(0, 0)
    /\ VerseCount > 20
    /\ Succeeded
    /\ ReturnedPagination.Items = 20

\* C4: a pagination with limit = 0 and offset # 0 is taken literally by
\* FetchSongWithVerses: no verses, items = 0, limit reported as 0, never the
\* default limit, whatever the verse count.
C4_ZeroLimitTakenLiterally ==
    (FetchedStored /\ Requested.Limit = 0 /\ Requested.Offset # 0) =>
        /\ Succeeded
        /\ ReturnedVerses = <<>>
        /\ ReturnedPagination.Items = 0
        /\ ReturnedPagination.Limit = 0
        /\ ReturnedPagination.Offset = Requested.Offset
        /\ ReturnedPagination.Total = VerseCount

\* offset 1, limit 0 on a song of more than 20 verses
C4_Witness ==
    /\ FetchedStored
    /\ Requested = Pagination(1, 0)
    /\ VerseCount > 20
    /\ Succeeded
    /\ ReturnedVerses = <<>>

\* C5: the verses FetchSongWithVerses returns are the elements at positions
\* [offset, offset + items) of the full split of the lyric text, in order, and
\* total is the length of the full split whatever offset and limit were.
C5_ContiguousSubRange ==
    (FetchedStored /\ Succeeded) =>
        /\ Len(ReturnedVerses) = ReturnedPagination.Items
        /\ ReturnedPagination.Total = VerseCount
        /\ ReturnedPagination.Offset = Effective.Offset
        /\ ReturnedPagination.Items > 0 =>
              ReturnedPagination.Offset + ReturnedPagination.Items <= VerseCount
        /\ \A i \in 1..ReturnedPagination.Items :
              ReturnedVerses[i] = FullSplit[ReturnedPagination.Offset + i]

\* a page of two different verses that starts after the first verse
C5_Witness ==
    /\ FetchedStored
    /\ Succeeded
    /\ ReturnedPagination.Offset >= 1
    /\ ReturnedPagination.Items = 2
    /\ ReturnedVerses[1] # ReturnedVerses[2]
    /\ ReturnedVerses[1] # FullSplit[1]

\* C6: for a song with an empty lyric text FetchSongWithVerses with the
\* default pagination returns exactly one verse, the empty string, with
\* items = 1 and total = 1; and whatever the text and the pagination, the
\* verse count reported by a call that returns is never zero.
C6_EmptyTextOneVerse ==
    /\ (FetchedStored /\ StoredText = <<>> /\ Requested = Pagination(0, 0)) =>
            /\ Succeeded
            /\ ReturnedVerses = << <<>> >>
            /\ ReturnedPagination.Items = 1
            /\ ReturnedPagination.Total = 1
    /\ (FetchedStored /\ Succeeded) => ReturnedPagination.Total >= 1

C6_Witness ==
    /\ FetchedStored
    /\ StoredText = <<>>
    /\ Requested = Pagination(0, 0)
    /\ Succeeded
    /\ Len(ReturnedVerses) = 1

\* C7: the double line break is the only verse separator: a text with k
\* non-overlapping double line breaks gives k + 1 verses, no verse holds a
\* double line break, and joining the verses with the double line break gives
\* the text back, single line breaks included.
C7_DoubleBreakOnlySeparator ==
    (FetchedStored /\ Succeeded /\ ReturnedPagination.Offset = 0
                   /\ ReturnedPagination.Items = ReturnedPagination.Total) =>
        /\ Len(ReturnedVerses) = Count(StoredText, DoubleBreak) + 1
        /\ Join(ReturnedVerses, DoubleBreak) = StoredText
        /\ \A i \in 1..Len(ReturnedVerses) :
              ~Contains(ReturnedVerses[i], DoubleBreak)

\* all the verses of a text came back, one of them holding a line break
C7_Witness ==
    /\ FetchedStored
    /\ Succeeded
    /\ ReturnedPagination.Offset = 0
    /\ ReturnedPagination.Items = ReturnedPagination.Total
    /\ Len(ReturnedVerses) >= 2
    /\ \E i \in 1..Len(ReturnedVerses) : Contains(ReturnedVerses[i], <<NL>>)

\* the statements the last invocation sent to the store
Statements == {"INSERT", "SELECT", "COUNT", "UPDATE", "DELETE"}
SentStatements == {i \in 1..Len(calls) : calls[i].fn \in Statements}
\* the calls of Save the last invocation made
SaveCalls == {i \in 1..Len(calls) : calls[i].fn = "Save"}

\* C8: when the metadata lookup fails, AddSong returns an error and a nil
\* song, and Save is not called in that invocation.
C8_LookupFailureNoSave ==
    (ret.op = "AddSong" /\ ret.lookup = <<>>) =>
        /\ ret.err # NoErr
        /\ Is(ret.err, ErrAPI)
        /\ ret.song = <<>>
        /\ SaveCalls = {}
        /\ SentStatements = {}

\* the lookup failed for a song Save would have taken
C8_Witness ==
    /\ ret.op = "AddSong"
    /\ ret.lookup = <<>>
    /\ ret.arg[1].GroupName # <<>>
    /\ ret.arg[1].Name # <<>>
    /\ ret.err # NoErr

\* C9: when the lookup succeeds, AddSong passes to Save a song with the
\* caller's group name and title and the release date, text and link the
\* lookup returned, and on success returns the persisted song, with its
\* generated id and timestamps, unchanged.
C9_AddSongSavesLookedUpDetail ==
    (ret.op = "AddSong" /\ ret.lookup # <<>>) =>
        /\ Cardinality(SaveCalls) = 1
        /\ \A i \in SaveCalls :
              /\ calls[i].song[1].GroupName = ret.arg[1].GroupName
              /\ calls[i].song[1].Name = ret.arg[1].Name
              /\ calls[i].song[1].SongDetail.ReleaseDate = ret.lookup[1].ReleaseDate
              /\ calls[i].song[1].SongDetail.Text = ret.lookup[1].Text
              /\ calls[i].song[1].SongDetail.Link = ret.lookup[1].Link
        /\ ret.err = NoErr =>
              /\ ret.song # <<>>
              /\ ret.song[1].ID # 0
              /\ ret.song[1].CreatedAt # 0
              /\ ret.song[1].UpdatedAt # 0
              /\ \E r \in songs :
                    /\ r.id = ret.song[1].ID
                    /\ r.group_name = ret.song[1].GroupName
                    /\ r.name = ret.song[1].Name
                    /\ r.release_date.Time = ret.song[1].SongDetail.ReleaseDate
                    /\ r.text.String = ret.song[1].SongDetail.Text
                    /\ r.link.String = ret.song[1].SongDetail.Link
                    /\ r.created_at = ret.song[1].CreatedAt
                    /\ r.updated_at = ret.song[1].UpdatedAt

\* a song was added with the text and the link the lookup returned
C9_Witness ==
    /\ ret.op = "AddSong"
    /\ ret.lookup # <<>>
    /\ ret.lookup[1].Text # <<>>
    /\ ret.err = NoErr
    /\ ret.song # <<>>
    /\ ret.song[1].SongDetail.Text = ret.lookup[1].Text

\* a partial song with every settable field empty
AllFieldsEmpty(song) ==
    /\ song.GroupName = <<>>
    /\ song.Name = <<>>
    /\ song.SongDetail.ReleaseDate = 0
    /\ song.SongDetail.Text = <<>>
    /\ song.SongDetail.Link = <<>>

RowOf(table, id) == CHOOSE r \in table : r.id = id

\* the value a column takes from a field of the partial song: the field's
\* when it is not empty, the column's own otherwise
WrittenString(field, column) == IF field # <<>> THEN NullString(field, TRUE) ELSE column
WrittenTime(field, column) == IF field # 0 THEN NullTime(field, TRUE) ELSE column

\* C11: a successful ModifySong(id, partial) writes exactly the non-empty
\* fields of partial to the song with that id; the fields empty in partial
\* keep their values, the id and the creation time stay, and every other
\* song of the store is left as it was.
C11_PartialUpdateFrame ==
    [][(ret'.op = "ModifySong" /\ ret'.err = NoErr) =>
          LET partial == ret'.arg[1]
              old == RowOf(songs, ret'.songID)
              new == RowOf(songs', ret'.songID)
          IN  /\ Cardinality(RowsByID(songs, ret'.songID)) = 1
              /\ Cardinality(RowsByID(songs', ret'.songID)) = 1
              /\ new.id = old.id
              /\ new.created_at = old.created_at
              /\ new.group_name =
                     IF partial.GroupName # <<>> THEN partial.GroupName ELSE old.group_name
              /\ new.name = IF partial.Name # <<>> THEN partial.Name ELSE old.name
              /\ new.release_date =
                     WrittenTime(partial.SongDetail.ReleaseDate, old.release_date)
              /\ new.text = WrittenString(partial.SongDetail.Text, old.text)
              /\ new.link = WrittenString(partial.SongDetail.Link, old.link)
              /\ songs' \ {new} = songs \ {old}
              /\ ret'.song = <<rowToEntity(new)>>]_vars

\* the text alone was written to a song that keeps the link and the release
\* date of its creation, with another song in the store
C11_Witness ==
    /\ ret.op = "ModifySong"
    /\ ret.err = NoErr
    /\ ret.arg[1].SongDetail.Text = <<"a">>
    /\ ret.arg[1].SongDetail.Link = <<>>
    /\ RowOf(songs, ret.songID).text.String = <<"a">>
    /\ RowOf(songs, ret.songID).link.String = <<"l">>
    /\ RowOf(songs, ret.songID).release_date.Valid
    /\ Cardinality(songs) = 2

\* C12, as stated: the group name and title of a stored song never change,
\* whatever AddSong, ModifySong and RemoveSong calls are made.
\* The code does change them: see C12 in RESULTS.json.
C12_GroupAndTitleImmutable ==
    [][\A old \in songs : \A new \in songs' :
          new.id = old.id =>
              /\ new.group_name = old.group_name
              /\ new.name = old.name]_vars

\* C12, amended: the group name (the title) of a stored song changes only by
\* a successful ModifySong on that song whose partial song carries a
\* non-empty group name (title), and then to that value; AddSong, RemoveSong
\* and every other ModifySong leave them as they were.
C12_GroupAndTitleChangeOnlyWhenSupplied ==
    [][\A old \in songs : \A new \in songs' :
          new.id = old.id =>
              /\ new.group_name # old.group_name =>
                    /\ ret'.op = "ModifySong"
                    /\ ret'.err = NoErr
                    /\ ret'.songID = old.id
                    /\ ret'.arg[1].GroupName # <<>>
                    /\ new.group_name = ret'.arg[1].GroupName
              /\ new.name # old.name =>
                    /\ ret'.op = "ModifySong"
                    /\ ret'.err = NoErr
                    /\ ret'.songID = old.id
                    /\ ret'.arg[1].Name # <<>>
                    /\ new.name = ret'.arg[1].Name
              /\ (ret'.op = "ModifySong" /\ ret'.err = NoErr /\ ret'.songID = old.id) =>
                    /\ ret'.arg[1].GroupName = <<>> => new.group_name = old.group_name
                    /\ ret'.arg[1].Name = <<>> => new.name = old.name]_vars

\* a ModifySong gave a stored song another group name and another title
\* than any AddSong creates
C12_Witness ==
    /\ ret.op = "ModifySong"
    /\ ret.err = NoErr
    /\ ret.arg[1].GroupName = <<"b">>
    /\ RowOf(songs, ret.songID).group_name = <<"b">>
    /\ RowOf(songs, ret.songID).name = <<"B">>

\* C13: RemoveSong(id) fails with the not-found error and returns 0 when no
\* song has that id, and the store keeps its songs; it succeeds and returns
\* 1 when one song has it, and that song alone leaves the store.
C13_RemoveSongCounts ==
    [][(ret'.op = "RemoveSong" /\ ~Is(ret'.err, ErrDB)) =>
          IF RowsByID(songs, ret'.songID) = {}
          THEN /\ Is(ret'.err, ErrSongNotFound)
               /\ ret'.deleted = 0
               /\ songs' = songs
          ELSE /\ ret'.err = NoErr
               /\ ret'.deleted = 1
               /\ songs' = songs \ RowsByID(songs, ret'.songID)
               /\ Cardinality(songs') = Cardinality(songs) - 1]_vars

\* a RemoveSong found nothing to delete in a store that holds a song
C13_Witness ==
    /\ ret.op = "RemoveSong"
    /\ Is(ret.err, ErrSongNotFound)
    /\ ret.deleted = 0
    /\ songs # {}

\* C14: FetchSongWithVerses for an id no stored song has fails with an error
\* that, under the wrapping of the use case and of the repository, is still
\* the not-found error, and returns neither a song nor a pagination.
C14_NotFoundSurvivesWrapping ==
    (/\ ret.op = "FetchSongWithVerses"
     /\ RowsByID(songs, ret.songID) = {}
     /\ ~Is(ret.err, ErrDB)) =>
        /\ Is(ret.err, ErrSongNotFound)
        /\ ret.err # <<ErrSongNotFound>>
        /\ ret.err[1] = UcFetchSongText
        /\ ret.verses = <<>>
        /\ ret.pagination = <<>>
        /\ ~ret.panic

\* a song was looked for under an id the store handed out and has no more
C14_Witness ==
    /\ ret.op = "FetchSongWithVerses"
    /\ RowsByID(songs, ret.songID) = {}
    /\ ret.songID < nextID
    /\ Is(ret.err, ErrSongNotFound)

\* the last invocation was a listing that returned songs and a pagination
Listed == ret.op = "FetchSongs" /\ ret.err = NoErr /\ ret.pagination # <<>>

\* the ids of the songs an invocation returned
ListedIDsOf(rt) == {rt.songs[i].ID : i \in 1..Len(rt.songs)}
ListedIDs == ListedIDsOf(ret)

\* a listing whose page holds every song of the store that was selected
WholeListingOf(rt, table) ==
    /\ rt.op = "FetchSongs"
    /\ rt.err = NoErr
    /\ rt.pagination # <<>>
    /\ rt.pagination[1].Offset = 0
    /\ rt.pagination[1].Limit >= Cardinality(table)
WholeListing == WholeListingOf(ret, songs)

IdsOf(rows) == {r.id : r \in rows}

Max(a, b) == IF a > b THEN a ELSE b

\* C15: the pagination of a listing has total = the number of stored songs
\* that match all the supplied filters, whatever offset and limit were, and
\* items = the number of songs of the returned page.
\* The code does not: see C15 in RESULTS.json.
C15_TotalCountsMatchingSongs ==
    Listed =>
        /\ ReturnedPagination.Total =
               Cardinality(applySongFilters(songs, ret.filters))
        /\ ReturnedPagination.Items = Len(ret.songs)

\* the value type a filter field expects
WellTyped(filter) ==
    CASE filter.Field \in {SongGroupNameFilterField, SongNameFilterField,
                           SongTextFilterField} -> filter.Value.kind = "string"
      [] filter.Field = SongReleaseYearFilterField -> filter.Value.kind = "int"
      [] filter.Field \in {SongReleaseDateFilterField,
                           SongReleaseDateAfterFilterField,
                           SongReleaseDateBeforeFilterField} ->
             filter.Value.kind = "time"
      [] OTHER -> FALSE

\* the filters of the last invocation without those of a wrong value type
WellTypedFilters == SelectSeq(ret.filters, WellTyped)

\* C16: a filter whose value is not of the type its field expects adds no
\* predicate and causes no error: the listing is the one the remaining
\* filters give.
C16_IllTypedFilterIgnored ==
    (ret.op = "FetchSongs" /\ WellTypedFilters # ret.filters) =>
        LET expected == applySongFilters(songs, WellTypedFilters)
        IN  /\ ret.err = NoErr
            /\ Listed
            /\ ListedIDs \subseteq IdsOf(expected)
            /\ Len(ret.songs) = Cardinality(ListedIDs)
            /\ Len(ret.songs) =
                   Min(ReturnedPagination.Limit,
                       Max(0, Cardinality(expected) - ReturnedPagination.Offset))
            /\ ReturnedPagination.Items = Len(ret.songs)

\* an ill-typed filter next to a well-typed one that leaves a song out
C16_Witness ==
    /\ WholeListing
    /\ Len(ret.filters) = 2
    /\ Len(WellTypedFilters) = 1
    /\ ListedIDs # {}
    /\ ListedIDs # IdsOf(songs)

\* the songs that satisfy every well-typed filter of a list
Conjunction(table, filters) ==
    {r \in table : \A i \in 1..Len(filters) :
        WellTyped(filters[i]) => FilterCond(r, filters[i])}

Reverse(seq) == [i \in 1..Len(seq) |-> seq[Len(seq) + 1 - i]]

\* C17: the filters are combined conjunctively: a song is selected iff it
\* satisfies every well-typed filter supplied, and the selection is the same
\* when the same filters are supplied in the other order.
C17_FiltersConjunctive ==
    [][WholeListingOf(ret', songs') =>
          /\ ListedIDsOf(ret') = IdsOf(Conjunction(songs', ret'.filters))
          /\ (/\ WholeListingOf(ret, songs)
              /\ songs' = songs
              /\ ret'.filters = Reverse(ret.filters)) =>
                 ListedIDsOf(ret') = ListedIDsOf(ret)]_vars

\* two well-typed filters, each satisfied by a song the other leaves out:
\* nothing is listed
C17_Witness ==
    /\ WholeListing
    /\ Len(ret.filters) = 2
    /\ WellTyped(ret.filters[1])
    /\ WellTyped(ret.filters[2])
    /\ \E r \in songs : FilterCond(r, ret.filters[1]) /\ ~FilterCond(r, ret.filters[2])
    /\ \E r \in songs : FilterCond(r, ret.filters[2]) /\ ~FilterCond(r, ret.filters[1])
    /\ ret.songs = <<>>

\* the column a text filter looks at
FilteredColumn(row, field) ==
    CASE field = SongGroupNameFilterField -> NullString(row.group_name, TRUE)
      [] field = SongNameFilterField -> NullString(row.name, TRUE)
      [] field = SongTextFilterField -> row.text

\* C18: the group-name, title and text filters each select the songs whose
\* field holds the filter value somewhere, ignoring case, the text filter
\* like the other two.
\* The code does not: see C18 in RESULTS.json.
C18_SubstringIgnoringCase ==
    (/\ WholeListing
     /\ Len(ret.filters) = 1
     /\ ret.filters[1].Field \in {SongGroupNameFilterField, SongNameFilterField,
                                  SongTextFilterField}
     /\ ret.filters[1].Value.kind = "string") =>
        ListedIDs =
            {r.id : r \in
                {x \in songs :
                    LET col == FilteredColumn(x, ret.filters[1].Field)
                    IN  /\ col.Valid
                        /\ Contains(Lower(col.String),
                                    Lower(ret.filters[1].Value.str))}}

\* C19: the release-date-after and release-date-before filters are strict, a
\* song released on the filter date satisfies neither; the release-date
\* filter selects exactly the songs released on the filter date.
C19_DateFiltersStrict ==
    (/\ WholeListing
     /\ Len(ret.filters) = 1
     /\ ret.filters[1].Value.kind = "time") =>
        LET date == ret.filters[1].Value.num
            field == ret.filters[1].Field
            dated == {r \in songs : r.release_date.Valid}
        IN  /\ field = SongReleaseDateAfterFilterField =>
                  ListedIDs = IdsOf({r \in dated : r.release_date.Time > date})
            /\ field = SongReleaseDateBeforeFilterField =>
                  ListedIDs = IdsOf({r \in dated : r.release_date.Time < date})
            /\ field = SongReleaseDateFilterField =>
                  ListedIDs = IdsOf({r \in dated : r.release_date.Time = date})

\* the release-date-after filter left out a song released on the filter date
\* and listed a later one
C19_Witness ==
    /\ WholeListing
    /\ ret.filters = <<SongFilter(SongReleaseDateAfterFilterField,
                                  TimeValue(TicksPerDay))>>
    /\ \E r \in songs : r.release_date.Valid /\ r.release_date.Time = TicksPerDay
    /\ Cardinality(ListedIDs) = 1
    /\ ListedIDs # IdsOf(songs)

Line1 == <<"l", "i", "n", "e", "1">>
Line2 == <<"l", "i", "n", "e", "2">>

\* C20: after AddSong succeeds for a song whose lookup returned the text
\* "line1" + double line break + "line2", the stored song has the release
\* date, text and link of the lookup, and a following FetchSongWithVerses on
\* the returned id with pagination (0, 20) returns the verses "line1",
\* "line2" and the pagination offset 0, limit 20, items 2, total 2.
C20_AddThenFetchVerses ==
    [][(/\ ret.op = "AddSong"
        /\ ret.err = NoErr
        /\ ret.lookup[1].Text = Line1 \o DoubleBreak \o Line2) =>
          /\ ret.song # <<>>
          /\ Cardinality(RowsByID(songs, ret.song[1].ID)) = 1
          /\ LET row == RowOf(songs, ret.song[1].ID)
             IN  /\ row.release_date = NullTime(ret.lookup[1].ReleaseDate, TRUE)
                 /\ row.text = NullString(ret.lookup[1].Text, TRUE)
                 /\ row.link = NullString(ret.lookup[1].Link, TRUE)
          /\ (/\ ret'.op = "FetchSongWithVerses"
              /\ ret'.songID = ret.song[1].ID
              /\ ret'.request = <<Pagination(0, 20)>>) =>
                 /\ ret'.err = NoErr
                 /\ ~ret'.panic
                 /\ ret'.verses # <<>>
                 /\ ret'.verses[1].Verses = <<Line1, Line2>>
                 /\ ret'.verses[1].ID = ret.song[1].ID
                 /\ ret'.pagination =
                        <<[Offset |-> 0, Limit |-> 20, Items |-> 2, Total |-> 2]>>]_vars

\* the two lines came back for the pagination (0, 20)
C20_Witness ==
    /\ FetchedStored
    /\ Requested = Pagination(0, 20)
    /\ StoredText = Line1 \o DoubleBreak \o Line2
    /\ Succeeded
    /\ ReturnedVerses = <<Line1, Line2>>

\* C21: the id and created-at of a song are assigned at its creation and
\* never change; every successful ModifySong sets the updated-at of its song
\* to the time of that update, which is later than the value it had, and the
\* returned song carries it; no other operation touches a stored updated-at.
C21_TimestampsAndIdentity ==
    [][/\ \A old \in songs : \A new \in songs' :
             new.id = old.id =>
                 /\ new.created_at = old.created_at
                 /\ IF ret'.op = "ModifySong" /\ ret'.err = NoErr
                       /\ ret'.songID = old.id
                    THEN /\ new.updated_at = now
                         /\ new.updated_at > old.updated_at
                         /\ ret'.song[1].UpdatedAt = new.updated_at
                         /\ ret'.song[1].CreatedAt = old.created_at
                         /\ ret'.song[1].ID = old.id
                    ELSE new.updated_at = old.updated_at
       /\ \A new \in songs' :
             RowsByID(songs, new.id) = {} =>
                 /\ ret'.op = "AddSong"
                 /\ new.id = nextID
                 /\ new.created_at = now
                 /\ new.updated_at = now]_vars

\* a song updated twice: its updated-at is two updates past its created-at
C21_Witness ==
    /\ ret.op = "ModifySong"
    /\ ret.err = NoErr
    /\ ret.song[1].UpdatedAt >= ret.song[1].CreatedAt + 2
    /\ RowOf(songs, ret.songID).updated_at = ret.song[1].UpdatedAt

\* the calls of a collaborator's method, and the statements of a kind, that
\* the last invocation made
CallsOf(fn) == {i \in 1..Len(calls) : calls[i].fn = fn}
Collaborators == {"FetchSongInfo", "Save", "GetAll", "GetByID", "Update", "Delete"}
CollaboratorCalls == {i \in 1..Len(calls) : calls[i].fn \in Collaborators}

\* C22: no operation retries. AddSong calls the metadata lookup exactly once
\* and Save at most once, after a lookup that succeeded; each other operation
\* calls the persistence collaborator at most once, which sends each of its
\* statements at most once; a failure ends the operation with an error and
\* nil or zero results.
C22_NoRetries ==
    /\ ret.op = "AddSong" =>
          /\ CallsOf("FetchSongInfo") = {1}
          /\ Cardinality(CallsOf("Save")) <= 1
          /\ CallsOf("Save") # {} <=> ret.lookup # <<>>
          /\ CollaboratorCalls = CallsOf("FetchSongInfo") \cup CallsOf("Save")
    /\ ret.op = "FetchSongs" => CollaboratorCalls = CallsOf("GetAll") /\ CallsOf("GetAll") = {1}
    /\ ret.op = "FetchSongWithVerses" =>
          CollaboratorCalls = CallsOf("GetByID") /\ CallsOf("GetByID") = {1}
    /\ ret.op = "ModifySong" =>
          CollaboratorCalls = CallsOf("Update") /\ CallsOf("Update") = {1}
    /\ ret.op = "RemoveSong" =>
          CollaboratorCalls = CallsOf("Delete") /\ CallsOf("Delete") = {1}
    /\ \A sql \in Statements : Cardinality(CallsOf(sql)) <= 1
    /\ ret.err # NoErr =>
          /\ ret.song = <<>>
          /\ ret.songs = <<>>
          /\ ret.verses = <<>>
          /\ ret.pagination = <<>>
          /\ ret.deleted = 0
    /\ (Is(ret.err, ErrDB) \/ Is(ret.err, ErrAPI)) =>
          /\ ret.err # NoErr
          /\ Cardinality(SentStatements) <= 2
          /\ ret.op # "FetchSongs" => Cardinality(SentStatements) <= 1

\* the store failed the one INSERT of an AddSong whose lookup had succeeded
C22_Witness ==
    /\ ret.op = "AddSong"
    /\ ret.lookup # <<>>
    /\ Is(ret.err, ErrDB)
    /\ Cardinality(CallsOf("Save")) = 1
    /\ Cardinality(CallsOf("INSERT")) = 1
    /\ ret.song = <<>>

\* C23: the count of deleted rows alone decides what a removal answers: zero
\* is not-found (status 404), one or more is a success returning that count
\* (status 204), and a count above one is only logged by the handler
C23_RemovedCountDecides ==
    (ret.op = "RemoveSong" /\ ret.query # <<>>) =>
        LET rowsAffected == ret.query[1].rowsAffected
        IN  /\ rowsAffected = 0 =>
                /\ Is(ret.err, ErrSongNotFound)
                /\ ret.deleted = 0
                /\ removeSongStatus(ret.err) = StatusNotFound
            /\ rowsAffected >= 1 =>
                /\ ret.err = NoErr
                /\ ret.deleted = rowsAffected
                /\ removeSongStatus(ret.err) = StatusNoContent
            /\ removeSongLogsError(ret.deleted, ret.err) <=> rowsAffected > 1

\* a delete that reported two rows was answered with 204 and logged
C23_Witness ==
    /\ ret.op = "RemoveSong"
    /\ ret.query # <<>>
    /\ ret.query[1].rowsAffected = 2
    /\ ret.err = NoErr
    /\ ret.deleted = 2
    /\ removeSongStatus(ret.err) = StatusNoContent
    /\ removeSongLogsError(ret.deleted, ret.err)

\* the status a handler answers with on success
SuccessStatus(op) ==
    CASE op = "AddSong" -> StatusCreated
      [] op = "RemoveSong" -> StatusNoContent
      [] OTHER -> StatusOK

\* C24: fetch-with-verses, modify and remove answer 404 exactly when the
\* use-case error is or wraps not-found, 500 on every other use-case error and
\* 200, 200, 204 on success; add-song answers 201 on success and 500 on any
\* use-case error
C24_HandlerStatuses ==
    /\ (ret.op \in {"FetchSongWithVerses", "ModifySong", "RemoveSong"} /\ ~ret.panic) =>
        /\ HandlerStatus(ret) = StatusNotFound <=> Is(ret.err, ErrSongNotFound)
        /\ HandlerStatus(ret) = StatusInternalServerError <=>
               (ret.err # NoErr /\ ~Is(ret.err, ErrSongNotFound))
        /\ HandlerStatus(ret) = SuccessStatus(ret.op) <=> ret.err = NoErr
    /\ ret.op = "AddSong" =>
        /\ HandlerStatus(ret) = StatusCreated <=> ret.err = NoErr
        /\ HandlerStatus(ret) = StatusInternalServerError <=> ret.err # NoErr

\* a fetch of an absent song came back with not-found under the wrapping of
\* the repository and the use case, and was answered with 404
C24_Witness ==
    /\ ret.op = "FetchSongWithVerses"
    /\ Is(ret.err, ErrSongNotFound)
    /\ Len(ret.err) > 1
    /\ HandlerStatus(ret) = StatusNotFound

RECURSIVE FormatUint(_)
\* the decimal writing of a natural number
FormatUint(n) ==
    IF n < 10 THEN <<Digits[n + 1]>>
    ELSE Append(FormatUint(n \div 10), Digits[(n % 10) + 1])

RECURSIVE StripLeadingZeros(_)
StripLeadingZeros(str) ==
    IF Len(str) > 1 /\ str[1] = "0" THEN StripLeadingZeros(Tail(str)) ELSE str

\* param is a writing of the unsigned integer n of the machine's width
WritesUint(param, n) ==
    n \in 0..MaxUint /\ param # <<>> /\ StripLeadingZeros(param) = FormatUint(n)

\* the value a query parameter stands for: the integer it writes, else the default
ParamOrDefault(param, defaultValue) ==
    IF \E n \in 0..MaxUint : WritesUint(param, n)
    THEN CHOOSE n \in 0..MaxUint : WritesUint(param, n)
    ELSE defaultValue

\* C25: parsePagination fills offset and limit independently: a parameter
\* that is absent, empty or not an unsigned integer takes its default (0, 20),
\* one that parses is passed through; offset=40&limit=10 gives 40 and 10, no
\* parameters give 0 and 20
C25_PaginationParameters ==
    ret.op = "parsePagination" =>
        LET query == ret.query[1]
            pagination == ret.pagination[1]
        IN  /\ pagination.Offset = ParamOrDefault(query.offset, 0)
            /\ pagination.Limit = ParamOrDefault(query.limit, 20)
            /\ (query.offset = <<"4", "0">> /\ query.limit = <<"1", "0">>) =>
                   (pagination.Offset = 40 /\ pagination.Limit = 10)
            /\ (query.offset = <<>> /\ query.limit = <<>>) =>
                   (pagination.Offset = 0 /\ pagination.Limit = 20)

\* a request whose offset does not parse and whose limit does: the offset is
\* the default and the limit is kept
C25_Witness ==
    /\ ret.op = "parsePagination"
    /\ ret.query[1].offset = <<"x">>
    /\ ret.query[1].limit = <<"1", "0">>
    /\ ret.pagination[1].Offset = 0
    /\ ret.pagination[1].Limit = 10

\* the filter fields in the order parseSongFilters looks the parameters up
FilterFieldOrder ==
    <<SongGroupNameFilterField, SongNameFilterField, SongReleaseYearFilterField,
      SongReleaseDateFilterField, SongReleaseDateAfterFilterField,
      SongReleaseDateBeforeFilterField, SongTextFilterField>>

\* the place of a field in that order
FieldPlace(field) == CHOOSE i \in 1..Len(FilterFieldOrder) : FilterFieldOrder[i] = field

\* a parameter written as a date
InDateForm(param) == ~ParseDate(param).err

\* C26: parseSongFilters returns its filters in the fixed order group-name,
\* title, release-year, release-date, after, before, text; a request carrying
\* all seven parameters, the release year in date form like the date
\* parameters, yields exactly seven filters, the release-year one among them;
\* a request with no parameters yields none
C26_OneFilterPerParameter ==
    ret.op = "parseSongFilters" =>
        LET query == ret.query[1]
            filters == ret.filters
        IN  /\ \A i, j \in 1..Len(filters) :
                   i < j => FieldPlace(filters[i].Field) < FieldPlace(filters[j].Field)
            /\ ( /\ query.groupName = <<>> /\ query.name = <<>> /\ query.text = <<>>
                 /\ query.releaseYear = <<>> /\ query.releaseDate = <<>>
                 /\ query.releaseDateAfter = <<>> /\ query.releaseDateBefore = <<>> )
                   => filters = <<>>
            /\ ( /\ query.groupName # <<>> /\ query.name # <<>> /\ query.text # <<>>
                 /\ InDateForm(query.releaseYear) /\ InDateForm(query.releaseDate)
                 /\ InDateForm(query.releaseDateAfter)
                 /\ InDateForm(query.releaseDateBefore) )
                   => /\ Len(filters) = 7
                      /\ \E i \in 1..Len(filters) :
                             filters[i].Field = SongReleaseYearFilterField

\* the songs Save was called with in the last operation
SavedArguments == {calls[i].song[1] : i \in SaveCalls}

\* C27: Save rejects a song whose group name or title is empty with an error
\* and a nil result before any statement is sent, so no stored song has an
\* empty group name or title; an empty release date, text or link is no
\* reason to reject
C27_SaveRequiresGroupAndTitle ==
    /\ \A row \in songs : row.group_name # <<>> /\ row.name # <<>>
    /\ ret.op = "AddSong" =>
        \A song \in SavedArguments :
            IF song.GroupName = <<>> \/ song.Name = <<>>
            THEN /\ Is(ret.err, ErrMissingFields)
                 /\ ret.song = <<>>
                 /\ SentStatements = {}
            ELSE /\ ~Is(ret.err, ErrMissingFields)
                 /\ SentStatements # {}

\* a song without a title came back from a successful lookup and Save
\* rejected it
C27_Witness ==
    /\ ret.op = "AddSong"
    /\ ret.lookup # <<>>
    /\ \E song \in SavedArguments : song.Name = <<>> /\ song.GroupName # <<>>
    /\ Is(ret.err, ErrMissingFields)
    /\ ret.song = <<>>
    /\ SentStatements = {}

\* the offset after the clamping to the verse count, and the end index the
\* last fetch computed from it in unsigned arithmetic
EffectiveOffset == Min(Effective.Offset, VerseCount)
EndIndex ==
    LET sum == U64Add(EffectiveOffset, Effective.Limit)
    IN  IF sum > VerseCount THEN VerseCount ELSE sum

\* C28: for every unsigned offset and limit FetchSongWithVerses computes an
\* end index between the effective offset and the verse count, also when
\* offset + limit goes beyond the largest unsigned value, so the slice is
\* well-formed and the call does not fail because of the arithmetic.
\* The code does not: see C28 in RESULTS.json.
C28_EndIndexWithinBounds ==
    FetchedStored =>
        /\ EffectiveOffset <= EndIndex
        /\ EndIndex <= VerseCount
        /\ ~ret.panic
        /\ ret.err = NoErr

\* C29: every successful listing returns items <= total, also when additions
\* and removals of other requests take effect between GetAll's page query and
\* its count query.
\* The code does not: see C29 in RESULTS.json.
C29_ItemsWithinTotal ==
    (ret.op = "FetchSongs" /\ ret.err = NoErr) =>
        ret.pagination[1].Items <= ret.pagination[1].Total

\* the identifiers the store has handed out so far, and those of them no
\* song has any more
HandedOut == 1..(nextID - 1)
Removed == {id \in HandedOut : RowsByID(songs, id) = {}}

\* C30: once RemoveSong(id) has succeeded, every later FetchSongWithVerses(id),
\* ModifySong(id, non-empty partial) and RemoveSong(id) that the store answers
\* fails with not-found and changes nothing: a song leaves the store only by
\* a successful RemoveSong of its id, a removed id is never found again, and
\* a new song never gets an id handed out before
C30_RemovedStaysRemoved ==
    [][/\ \A old \in songs :
             RowsByID(songs', old.id) = {} =>
                 /\ ret'.op = "RemoveSong"
                 /\ ret'.err = NoErr
                 /\ ret'.songID = old.id
       /\ \A id \in Removed : RowsByID(songs', id) = {}
       /\ \A new \in songs' :
             RowsByID(songs, new.id) = {} => new.id \notin HandedOut
       /\ \A r1, r2 \in songs' : r1.id = r2.id => r1 = r2
       /\ ( /\ ret'.op \in {"FetchSongWithVerses", "ModifySong", "RemoveSong"}
            /\ ret'.songID \in Removed
            /\ ~Is(ret'.err, ErrDB)
            /\ ret'.op = "ModifySong" => DOMAIN entityToMap(ret'.arg[1]) # {} )
              => /\ Is(ret'.err, ErrSongNotFound)
                 /\ ret'.song = <<>>
                 /\ ret'.verses = <<>>
                 /\ ret'.deleted = 0
                 /\ songs' = songs]_vars

\* a removed song was looked for after another song had been added: it was
\* not found, and the later song has another id
C30_Witness ==
    /\ ret.op = "FetchSongWithVerses"
    /\ ret.songID \in Removed
    /\ Is(ret.err, ErrSongNotFound)
    /\ \E row \in songs : row.id > ret.songID

=============================================================================
